---- MODULE Spec2Model ----
(***************************************************************************)
(* The batch audit pipeline of main.py: POST /audit registers one          *)
(* JobRecord per item in the audit_items table and schedules one           *)
(* process_pdf_url task per item, in chunks run by process_items; every    *)
(* task passes the process-wide asyncio semaphore, downloads the PDF,      *)
(* extracts its text, builds the prompt, calls the reasoning engine in a   *)
(* worker thread and writes its terminal state to the table.               *)
(*                                                                         *)
(* One action is one run of a coroutine between two suspension points of   *)
(* the single-threaded event loop, so it is atomic with respect to every   *)
(* other coroutine.  Under Spec, SpecCeiling and SpecRace the sqlite       *)
(* writes succeed; SpecFaults adds the failures of the pipelines' UPDATE   *)
(* statements, and SpecClient has the worker threads of call_yuanbao.      *)
(***************************************************************************)
EXTENDS Integers, Sequences, FiniteSets, TLC

VARIABLES
    store,      \* table audit_items: a function from the item_ids that have a row to their rows
    ready,      \* the event loop's FIFO of tasks created and not yet started
    waiters,    \* semaphore._waiters: tasks suspended in semaphore.acquire()
    sem_value,  \* semaphore._value: free limiter slots
    tasks,      \* process_pdf_url tasks inside "async with semaphore"
    nsub,       \* number of accepted POST /audit requests (the clock of create_time)
    ntask,      \* number of items accepted so far (gives every task its identity)
    http,       \* the HTTP exchange answered by the last step, if it was a handler's
    unwritten,  \* the pipelines that ended without a terminal write (both UPDATEs raised)
    HUNYUAN_CLIENT,       \* the global handle of the reasoning engine, None at import
    HUNYUAN_CLIENT_LOCK,  \* threading.Lock(): the thread that holds it, if any
    threads     \* the worker threads running call_yuanbao: position and handle used

(* The state of call_yuanbao's worker threads.                             *)
client_vars == <<HUNYUAN_CLIENT, HUNYUAN_CLIENT_LOCK, threads>>

(* The state of the event loop, the table and the limiter.                 *)
loop_vars == <<store, ready, waiters, sem_value, tasks, nsub, ntask, http, unwritten>>

vars == <<store, ready, waiters, sem_value, tasks, nsub, ntask, http, unwritten,
          HUNYUAN_CLIENT, HUNYUAN_CLIENT_LOCK, threads>>

----------------------------------------------------------------------------
(* Program constants *)

MAX_CONCURRENT == 5

MAX_ITEMS_PER_BATCH == 5

max_size == 55 * 1024 * 1024

(* The sizes the documentation states: the comment "# 50MB" at max_size   *)
(* and the usage text returned by GET /audit (at most 50 addresses).       *)
DocumentedMaxSize == 50 * 1024 * 1024

DocumentedMaxItems == 50

----------------------------------------------------------------------------
(* Bounds of the model *)

MaxSubmissions == 2

MaxTasks == 7

MaxThreads == 3

(* SQL NULL and Python None *)
NULL == [null |-> TRUE]

----------------------------------------------------------------------------
(* The documents behind the URLs a caller can submit.  What a URL serves   *)
(* is the input of download_pdf and extract_pdf_text.                      *)

Urls == {"ok_a", "ok_b", "html", "down", "big", "huge", "corrupt"}

Reachable(url) == url # "down"

ContentType(url) == IF url = "html" THEN "text/html" ELSE "application/pdf"

Size(url) ==
    CASE url = "big"  -> DocumentedMaxSize + 1
      [] url = "huge" -> max_size + 1
      [] OTHER        -> 1024

Readable(url) == url # "corrupt"

Item(id, url) == [id |-> id, url |-> url]

----------------------------------------------------------------------------
(* Requests.  A POST /audit body is a list of {url, id} objects.           *)

SaturatingBody ==
    <<Item(1, "html"), Item(2, "big"), Item(3, "corrupt"),
      Item(4, "huge"), Item(5, "down"), Item(6, "html")>>

OversizedBody == [i \in 1..(DocumentedMaxItems + 1) |-> Item(i, "ok_a")]

Bodies ==
    { <<>>,
      <<Item(1, "ok_a")>>,
      <<Item(1, "ok_b")>>,
      SaturatingBody }

(* The item_ids GET /audit/{item_id} is asked for: 1, which requests       *)
(* carry, and 0, which no request carries.                                 *)
GetIds == {0, 1}

(* A request body as the framework receives it: a JSON array of {url, id}  *)
(* objects, or something else, such as the object of a batch that names a  *)
(* callback target.  root holds the documents the body names.              *)
ListPayload(root) == [shape |-> "list", root |-> root, callback_url |-> NULL]

CallbackPayload ==
    [shape |-> "object", root |-> <<Item(1, "ok_a"), Item(2, "ok_b")>>,
     callback_url |-> [target |-> "hook"]]

MalformedUrlPayload == ListPayload(<<Item(1, "ok_a"), Item(2, "not_a_url")>>)

(* The bodies the intake of POST /audit is tried with: lists that are      *)
(* accepted, the empty list, and bodies that do not validate.              *)
Payloads ==
    { ListPayload(<<>>),
      ListPayload(<<Item(1, "ok_a")>>),
      ListPayload(<<Item(1, "ok_a"), Item(2, "ok_b")>>),
      CallbackPayload,
      MalformedUrlPayload }

----------------------------------------------------------------------------
(* Pure functions of main.py *)

Ok(v) == [ok |-> TRUE, value |-> v]

Raise(stage, why) == [ok |-> FALSE, error |-> [status_code |-> 400, stage |-> stage, why |-> why]]

(* download_pdf: the response of the server behind url, then the checks   *)
(* on content type and size; every failure becomes HTTPException(400).    *)
download_pdf(url) ==
    IF ~Reachable(url) THEN Raise("download", "http_error")
    ELSE IF ContentType(url) # "application/pdf"
         THEN (IF ContentType(url) = "text/html"
               THEN Raise("download", "html_page")
               ELSE Raise("download", "not_pdf"))
    ELSE IF Size(url) > max_size THEN Raise("download", "too_large")
    ELSE Ok([doc |-> url, len |-> Size(url)])

(* An extraction that swallows the parse error and returns what it has.   *)
extract_pdf_text_lenient(pdf_bytes) == Ok([text_of |-> pdf_bytes.doc])

(* extract_pdf_text: PdfReader fails on an unreadable document.            *)
extract_pdf_text(pdf_bytes) ==
    IF Readable(pdf_bytes.doc)
    THEN Ok([text_of |-> pdf_bytes.doc])
    ELSE Raise("extract", "unreadable")

build_audit_prompt(pdf_text) == [rules |-> 49, pdf_text |-> pdf_text]

(* call_yuanbao: what the function returns for each thing the engine can   *)
(* do.  It never raises: both except clauses return a string.              *)
EngineReplies == {"choices", "no_choices", "sdk_exception", "exception"}

call_yuanbao(prompt, reply) ==
    CASE reply = "choices"       -> [kind |-> "content", about |-> prompt.pdf_text.text_of]
      [] reply = "no_choices"    -> [kind |-> "no_response_content", about |-> ""]
      [] reply = "sdk_exception" -> [kind |-> "api_call_failed", about |-> ""]
      [] reply = "exception"     -> [kind |-> "call_exception", about |-> ""]

json_dumps(v) == [json |-> v]

json_loads(s) == s.json

----------------------------------------------------------------------------
(* The table audit_items *)

HasRow(st, id) == id \in DOMAIN st

(* What identifies a pipeline task: its number, its item and the           *)
(* submission that created it.                                             *)
Desc(e) == [tid |-> e.tid, id |-> e.id, url |-> e.url, sub |-> e.sub]

NoTask == [tid |-> 0, id |-> 0, url |-> "", sub |-> 0]

(* INSERT OR IGNORE: an existing row of the key is kept as it is.         *)
InsertOrIgnore(st, item_id, url_str, current_time) ==
    [i \in DOMAIN st \cup {item_id} |->
        IF i \in DOMAIN st
        THEN st[i]
        ELSE [pdf_url |-> url_str, status |-> "processing", result |-> NULL,
              error_message |-> NULL, processing_time |-> NULL,
              create_time |-> current_time,
              writes |-> 0, by |-> NoTask, stages |-> <<>>]]

(* INSERT OR REPLACE ... (item_id, pdf_url, status, create_time): the old  *)
(* row of the key, if any, is deleted; the columns not named are NULL.     *)
(* writes, by and stages are history variables of the row: the terminal    *)
(* writes it received, the task that wrote last and the stages it ran.     *)
InsertOrReplace(st, item_id, url_str, current_time) ==
    [i \in DOMAIN st \cup {item_id} |->
        IF i = item_id
        THEN [pdf_url |-> url_str, status |-> "processing", result |-> NULL,
              error_message |-> NULL, processing_time |-> NULL,
              create_time |-> current_time,
              writes |-> 0, by |-> NoTask, stages |-> <<>>]
        ELSE st[i]]

(* The loop "for item in items: cursor.execute(INSERT OR REPLACE ...)":    *)
(* every statement touches the row of its own key only, so the row of a    *)
(* key is what the last statement for that key makes of it.                *)
InsertAll(st, items, current_time) ==
    LET keys == {items[k].id : k \in DOMAIN items}
        last(i) == CHOOSE k \in DOMAIN items :
                        /\ items[k].id = i
                        /\ \A j \in DOMAIN items : items[j].id = i => j <= k
    IN  [i \in DOMAIN st \cup keys |->
            IF i \in keys
            THEN InsertOrReplace(st, i, items[last(i)].url, current_time)[i]
            ELSE st[i]]

(* An UPDATE whose WHERE clause selects every row.                         *)
WhereAnyRow(row_id, item_id) == row_id = row_id

(* The WHERE clause of both UPDATE statements.                             *)
WhereItemId(row_id, item_id) == row_id = item_id

(* The success UPDATE without its WHERE clause.                            *)
UpdateSuccessAllRows(st, t, result) ==
    [i \in DOMAIN st |->
        [st[i] EXCEPT !.status = "success", !.result = json_dumps(result),
                      !.error_message = NULL, !.processing_time = [seconds |-> "elapsed"],
                      !.writes = @ + 1, !.by = Desc(t),
                      !.stages = Append(t.stages, "persist")]]

(* UPDATE audit_items SET status = 'success', result = ?,                  *)
(*   error_message = NULL, processing_time = ? WHERE item_id = ?           *)
UpdateSuccess(st, t, result) ==
    [i \in DOMAIN st |->
        IF WhereItemId(i, t.id)
        THEN [st[i] EXCEPT !.status = "success", !.result = json_dumps(result),
                           !.error_message = NULL, !.processing_time = [seconds |-> "elapsed"],
                           !.writes = @ + 1, !.by = Desc(t),
                           !.stages = Append(t.stages, "persist")]
        ELSE st[i]]

(* An error UPDATE that detects the race: it writes only while the record *)
(* is still processing.                                                    *)
UpdateErrorIfProcessing(st, t, e) ==
    [i \in DOMAIN st |->
        IF WhereItemId(i, t.id) /\ st[i].status = "processing"
        THEN [st[i] EXCEPT !.status = "error", !.result = NULL,
                           !.error_message = e, !.processing_time = [seconds |-> "elapsed"],
                           !.writes = @ + 1, !.by = Desc(t),
                           !.stages = Append(t.stages, "persist")]
        ELSE st[i]]

(* An error UPDATE that leaves the result column as it was.                *)
UpdateErrorKeepsResult(st, t, e) ==
    [i \in DOMAIN st |->
        IF WhereItemId(i, t.id)
        THEN [st[i] EXCEPT !.status = "error",
                           !.error_message = e, !.processing_time = [seconds |-> "elapsed"],
                           !.writes = @ + 1, !.by = Desc(t),
                           !.stages = Append(t.stages, "persist")]
        ELSE st[i]]

(* UPDATE audit_items SET status = 'error', result = NULL,                 *)
(*   error_message = ?, processing_time = ? WHERE item_id = ?              *)
UpdateError(st, t, e) ==
    [i \in DOMAIN st |->
        IF WhereItemId(i, t.id)
        THEN [st[i] EXCEPT !.status = "error", !.result = NULL,
                           !.error_message = e, !.processing_time = [seconds |-> "elapsed"],
                           !.writes = @ + 1, !.by = Desc(t),
                           !.stages = Append(t.stages, "persist")]
        ELSE st[i]]

----------------------------------------------------------------------------
(* The limiter: semaphore = asyncio.Semaphore(MAX_CONCURRENT)              *)

(* A limiter that admits a task while any slot count is left over,        *)
(* counting from one short: it lets in one task too many.                  *)
LockedOffByOne == sem_value < 0 \/ waiters # <<>>

(* Semaphore.locked(): no free slot, or somebody already waits.            *)
Locked == sem_value = 0 \/ waiters # <<>>

Entered(e) == [tid |-> e.tid, id |-> e.id, url |-> e.url, sub |-> e.sub,
               pc |-> "download", stages |-> <<>>, prompt |-> NULL]

(* A release that returns the slot and wakes nobody.                       *)
ReleaseWithoutWakeUp(t) ==
    /\ waiters' = waiters
    /\ sem_value' = sem_value + 1
    /\ tasks' = tasks \ {t}

(* Leaving "async with semaphore": release() returns the slot and wakes    *)
(* the first waiter, which takes the slot and starts its download.         *)
Release(t) ==
    IF waiters # <<>>
    THEN /\ waiters' = Tail(waiters)
         /\ sem_value' = (sem_value + 1) - 1
         /\ tasks' = (tasks \ {t}) \cup {Entered(Head(waiters))}
    ELSE /\ waiters' = waiters
         /\ sem_value' = sem_value + 1
         /\ tasks' = tasks \ {t}

----------------------------------------------------------------------------
(* Handlers and coroutines *)

Min(a, b) == IF a < b THEN a ELSE b

(* Chunks taken at a stride one longer than the chunk: the item after     *)
(* every chunk is left out.                                                *)
BatchesSkipping(items) ==
    [k \in 1..((Len(items) + MAX_ITEMS_PER_BATCH) \div (MAX_ITEMS_PER_BATCH + 1)) |->
        SubSeq(items, (k - 1) * (MAX_ITEMS_PER_BATCH + 1) + 1,
               Min((k - 1) * (MAX_ITEMS_PER_BATCH + 1) + MAX_ITEMS_PER_BATCH, Len(items)))]

(* batches = [items[i:i + MAX_ITEMS_PER_BATCH] for i in range(0, len(items), ...)] *)
Batches(items) ==
    [k \in 1..((Len(items) + MAX_ITEMS_PER_BATCH - 1) \div MAX_ITEMS_PER_BATCH) |->
        SubSeq(items, (k - 1) * MAX_ITEMS_PER_BATCH + 1,
               Min(k * MAX_ITEMS_PER_BATCH, Len(items)))]

(* The items of an accepted request, each with the identity of the task    *)
(* that will process it and the number of its submission.                  *)
Tagged(items, first, sub) ==
    [i \in 1..Len(items) |->
        [tid |-> first + i, id |-> items[i].id, url |-> items[i].url, sub |-> sub]]

ProcessItemsTask(batch_items) == [kind |-> "process_items", audit_items |-> batch_items]

PipelineTask(item) ==
    [kind |-> "process_pdf_url", tid |-> item.tid, id |-> item.id,
     url |-> item.url, sub |-> item.sub]

(* A step of a background task answers no request.                        *)
NoExchange == [op |-> "none"]

(* POST /audit.  The handler never awaits: it runs to its return in one    *)
(* step of the event loop, and the tasks it creates start afterwards.      *)
process_audit_request(items) ==
    IF items = <<>>
    THEN /\ http' = [op |-> "POST", n |-> 0, status_code |-> 400]
         /\ UNCHANGED <<store, ready, waiters, sem_value, tasks, nsub, ntask>>
    ELSE /\ store' = InsertAll(store, items, nsub + 1)
         /\ LET batches == Batches(Tagged(items, ntask, nsub + 1))
            IN  ready' = ready \o [k \in 1..Len(batches) |-> ProcessItemsTask(batches[k])]
         /\ nsub' = nsub + 1
         /\ ntask' = ntask + Len(items)
         /\ http' = [op |-> "POST", n |-> Len(items), status_code |-> 200]
         /\ UNCHANGED <<waiters, sem_value, tasks>>

(* AuditItem.url: HttpUrl *)
HttpUrl(url) == url # "not_a_url"

(* A validation that takes any list, whatever its items hold.              *)
AuditRequestAnyList(payload) == payload.shape = "list"

(* AuditRequest(RootModel), root: List[AuditItem]: the body must be a      *)
(* list, each element an AuditItem.                                        *)
AuditRequest(payload) ==
    /\ payload.shape = "list"
    /\ \A k \in 1..Len(payload.root) : HttpUrl(payload.root[k].url)

(* @app.post("/audit") with the parameter audit_request: AuditRequest: a   *)
(* body that does not validate is answered 422 and the handler is not run. *)
post_audit(payload) ==
    IF AuditRequest(payload)
    THEN process_audit_request(payload.root)
    ELSE /\ http' = [op |-> "POST", n |-> Len(payload.root), status_code |-> 422]
         /\ UNCHANGED <<store, ready, waiters, sem_value, tasks, nsub, ntask>>

(* process_items: creates one process_pdf_url task per item, then waits in *)
(* gather; the results are dropped.                                        *)
process_items ==
    /\ ready # <<>>
    /\ Head(ready).kind = "process_items"
    /\ LET audit_items == Head(ready).audit_items
       IN  ready' = Tail(ready) \o [k \in 1..Len(audit_items) |-> PipelineTask(audit_items[k])]
    /\ http' = NoExchange
    /\ UNCHANGED <<store, waiters, sem_value, tasks, nsub, ntask>>
    /\ UNCHANGED <<unwritten, client_vars>>

(* process_pdf_url up to its first suspension: "async with semaphore"      *)
(* takes a slot and goes on to the download, or suspends in acquire().     *)
process_pdf_url_start ==
    /\ ready # <<>>
    /\ Head(ready).kind = "process_pdf_url"
    /\ ready' = Tail(ready)
    /\ IF ~Locked
       THEN /\ sem_value' = sem_value - 1
            /\ tasks' = tasks \cup {Entered(Head(ready))}
            /\ waiters' = waiters
       ELSE /\ waiters' = Append(waiters, Head(ready))
            /\ UNCHANGED <<sem_value, tasks>>
    /\ http' = NoExchange
    /\ UNCHANGED <<store, nsub, ntask>>
    /\ UNCHANGED <<unwritten, client_vars>>

(* An except clause reached with the slot still taken: the pipeline ends   *)
(* and the limiter is not told.                                            *)
FailWithoutRelease(t, ran, e) ==
    /\ tasks' = tasks \ {t}
    /\ UNCHANGED <<waiters, sem_value>>
    /\ store' = UpdateError(store, ran, e)

(* The except clause: the slot was released when the exception left the    *)
(* with block; the row gets its error state.                               *)
FailWith(t, ran, e) ==
    /\ Release(t)
    /\ store' = UpdateError(store, ran, e)

(* process_pdf_url from the end of the download to the next suspension.    *)
process_pdf_url_downloaded(t) ==
    /\ t \in tasks
    /\ t.pc = "download"
    /\ LET fetched == download_pdf(t.url)
           t1 == [t EXCEPT !.stages = Append(@, "fetch")]
       IN  IF ~fetched.ok THEN FailWith(t, t1, fetched.error)
           ELSE LET extracted == extract_pdf_text(fetched.value)
                    t2 == [t1 EXCEPT !.stages = Append(@, "extract")]
                IN  IF ~extracted.ok THEN FailWith(t, t2, extracted.error)
                    ELSE /\ tasks' = (tasks \ {t}) \cup
                                {[t2 EXCEPT !.pc = "evaluate",
                                            !.stages = Append(@, "build"),
                                            !.prompt = build_audit_prompt(extracted.value)]}
                         /\ UNCHANGED <<store, waiters, sem_value>>
    /\ http' = NoExchange
    /\ UNCHANGED <<ready, nsub, ntask>>

(* process_pdf_url after asyncio.to_thread(call_yuanbao, prompt) returned: *)
(* whatever string came back is stored as the result of a success.         *)
process_pdf_url_evaluated(t, reply) ==
    /\ t \in tasks
    /\ t.pc = "evaluate"
    /\ LET result == call_yuanbao(t.prompt, reply)
           t1 == [t EXCEPT !.stages = Append(@, "evaluate")]
       IN  store' = UpdateSuccess(store, t1, result)
    /\ Release(t)
    /\ http' = NoExchange
    /\ UNCHANGED <<ready, nsub, ntask>>

(* A read that hands the record out once: the row is deleted after the    *)
(* SELECT.                                                                 *)
get_item_result_once(item_id) ==
    /\ http' = IF ~HasRow(store, item_id)
               THEN [op |-> "GET", item_id |-> item_id, status |-> "failure"]
               ELSE LET row == store[item_id]
                    IN  [op |-> "GET", item_id |-> item_id,
                         pdf_url |-> row.pdf_url, status |-> row.status,
                         result |-> IF row.result # NULL /\ row.status = "success"
                                    THEN json_loads(row.result) ELSE NULL,
                         error_message |-> row.error_message,
                         processing_time |-> row.processing_time,
                         create_time |-> row.create_time]
    /\ store' = [i \in DOMAIN store \ {item_id} |-> store[i]]
    /\ UNCHANGED <<ready, waiters, sem_value, tasks, nsub, ntask>>

(* A read that answers an unknown item_id like a known one whose           *)
(* processing failed.                                                      *)
get_item_result_unknown_as_row(item_id) ==
    /\ http' = IF ~HasRow(store, item_id)
               THEN [op |-> "GET", item_id |-> item_id,
                     pdf_url |-> NULL, status |-> "failure", result |-> NULL,
                     error_message |-> NULL, processing_time |-> NULL,
                     create_time |-> NULL]
               ELSE LET row == store[item_id]
                    IN  [op |-> "GET", item_id |-> item_id,
                         pdf_url |-> row.pdf_url, status |-> "failure",
                         result |-> IF row.result # NULL /\ row.status = "success"
                                    THEN json_loads(row.result) ELSE NULL,
                         error_message |-> row.error_message,
                         processing_time |-> row.processing_time,
                         create_time |-> row.create_time]
    /\ UNCHANGED <<store, ready, waiters, sem_value, tasks, nsub, ntask>>

(* What str(e) holds when sqlite3 raises in connect, execute or commit.    *)
StoreError == [stage |-> "persist", why |-> "sqlite3_error"]

(* The except clause when its own UPDATE raises: the exception leaves      *)
(* process_pdf_url (gather hands it to process_items, whose task nobody    *)
(* awaits); the slot was released by the with block, no row is written.    *)
FailUnwritten(t) ==
    /\ Release(t)
    /\ store' = store
    /\ unwritten' = unwritten \cup {Desc(t)}

(* process_pdf_url when the download or the extraction fails and the       *)
(* UPDATE of the except clause raises.                                     *)
process_pdf_url_downloaded_unwritten(t) ==
    /\ t \in tasks
    /\ t.pc = "download"
    /\ LET fetched == download_pdf(t.url)
       IN  IF fetched.ok THEN ~extract_pdf_text(fetched.value).ok ELSE TRUE
    /\ FailUnwritten(t)
    /\ http' = NoExchange
    /\ UNCHANGED <<ready, nsub, ntask>>

(* process_pdf_url after to_thread returned when the success UPDATE        *)
(* raises inside the with block: the slot is released, and the except      *)
(* clause writes the error, or its UPDATE raises as well.                  *)
process_pdf_url_evaluated_store_error(t, error_written) ==
    /\ t \in tasks
    /\ t.pc = "evaluate"
    /\ IF error_written
       THEN /\ FailWith(t, [t EXCEPT !.stages = Append(@, "evaluate")], StoreError)
            /\ unwritten' = unwritten
       ELSE FailUnwritten(t)
    /\ http' = NoExchange
    /\ UNCHANGED <<ready, nsub, ntask>>

(* GET /audit/{item_id} *)
get_item_result(item_id) ==
    /\ http' = IF ~HasRow(store, item_id)
               THEN [op |-> "GET", item_id |-> item_id, status |-> "failure"]
               ELSE LET row == store[item_id]
                    IN  [op |-> "GET", item_id |-> item_id,
                         pdf_url |-> row.pdf_url, status |-> row.status,
                         result |-> IF row.result # NULL /\ row.status = "success"
                                    THEN json_loads(row.result) ELSE NULL,
                         error_message |-> row.error_message,
                         processing_time |-> row.processing_time,
                         create_time |-> row.create_time]
    /\ UNCHANGED <<store, ready, waiters, sem_value, tasks, nsub, ntask>>

----------------------------------------------------------------------------
Init ==
    /\ store = <<>>
    /\ ready = <<>>
    /\ waiters = <<>>
    /\ sem_value = MAX_CONCURRENT
    /\ tasks = {}
    /\ nsub = 0
    /\ ntask = 0
    /\ http = NoExchange
    /\ unwritten = {}
    /\ HUNYUAN_CLIENT = NULL
    /\ HUNYUAN_CLIENT_LOCK = NULL
    /\ threads = [th \in 1..MaxThreads |-> [pc |-> "start", used |-> NULL]]

(* The requests the model lets in: accepted submissions and accepted     *)
(* items are bounded, rejected requests are not.                           *)
WithinBounds(items) ==
    items = <<>> \/ (nsub < MaxSubmissions /\ ntask + Len(items) <= MaxTasks)

Post ==
    \E items \in Bodies :
        /\ WithinBounds(items)
        /\ post_audit(ListPayload(items))
        /\ UNCHANGED <<unwritten, client_vars>>

Downloaded ==
    \E t \in tasks :
        /\ process_pdf_url_downloaded(t)
        /\ UNCHANGED <<unwritten, client_vars>>

Evaluated ==
    \E t \in tasks : \E reply \in EngineReplies :
        /\ process_pdf_url_evaluated(t, reply)
        /\ UNCHANGED <<unwritten, client_vars>>

Get ==
    \E item_id \in GetIds :
        /\ get_item_result(item_id)
        /\ UNCHANGED <<unwritten, client_vars>>

Next ==
    \/ Post
    \/ process_items
    \/ process_pdf_url_start
    \/ Downloaded
    \/ Evaluated
    \/ Get

Spec == Init /\ [][Next]_vars

(* The admission of requests of any size: the handler and the start of    *)
(* the tasks it creates, up to the first suspension of each.               *)
CeilingBodies == {OversizedBody, <<Item(1, "ok_a")>>, <<>>}

PostAnySize ==
    \E items \in CeilingBodies :
        /\ items # <<>> => nsub < MaxSubmissions
        /\ process_audit_request(items)
        /\ UNCHANGED <<unwritten, client_vars>>

NextCeiling ==
    \/ PostAnySize
    \/ process_items
    \/ process_pdf_url_start

SpecCeiling == Init /\ [][NextCeiling]_vars

(* The intake of POST /audit with bodies of every shape.                   *)
PostAnyShape ==
    \E payload \in Payloads :
        /\ AuditRequest(payload) => WithinBounds(payload.root)
        /\ post_audit(payload)
        /\ UNCHANGED <<unwritten, client_vars>>

NextIntake ==
    \/ PostAnyShape
    \/ process_items
    \/ process_pdf_url_start
    \/ Downloaded
    \/ Evaluated
    \/ Get

SpecIntake == Init /\ [][NextIntake]_vars

(* Submissions that put two pipelines on one item_id: a list that names   *)
(* the item_id twice, and lists that name it again while it is processed.  *)
DuplicateIdBody == <<Item(1, "ok_a"), Item(1, "corrupt")>>

RaceBodies == {DuplicateIdBody, <<Item(1, "ok_b")>>, <<Item(1, "down")>>}

PostRace ==
    \E items \in RaceBodies :
        /\ WithinBounds(items)
        /\ post_audit(ListPayload(items))
        /\ UNCHANGED <<unwritten, client_vars>>

NextRace ==
    \/ PostRace
    \/ process_items
    \/ process_pdf_url_start
    \/ Downloaded
    \/ Evaluated
    \/ Get

SpecRace == Init /\ [][NextRace]_vars

(* The program with a store whose writes can fail: every UPDATE of a       *)
(* pipeline either succeeds or raises.                                     *)
FaultBodies == {SaturatingBody, <<Item(1, "down")>>}

PostFaults ==
    \E items \in FaultBodies :
        /\ WithinBounds(items)
        /\ post_audit(ListPayload(items))
        /\ UNCHANGED <<unwritten, client_vars>>

DownloadedUnwritten ==
    \E t \in tasks :
        /\ process_pdf_url_downloaded_unwritten(t)
        /\ UNCHANGED client_vars

EvaluatedStoreError ==
    \E t \in tasks : \E error_written \in BOOLEAN :
        /\ process_pdf_url_evaluated_store_error(t, error_written)
        /\ UNCHANGED client_vars

(* The steps of the event loop: a created task starts.                     *)
Starts == process_items \/ process_pdf_url_start

(* The steps an external call ends with, by returning or by failing.       *)
Completes == Downloaded \/ Evaluated \/ DownloadedUnwritten \/ EvaluatedStoreError

NextFaults ==
    \/ PostFaults
    \/ process_items
    \/ process_pdf_url_start
    \/ Downloaded
    \/ Evaluated
    \/ DownloadedUnwritten
    \/ EvaluatedStoreError

SpecFaults == Init /\ [][NextFaults]_vars

(* The event loop runs every task that is ready, and every external call   *)
(* returns or fails.                                                       *)
SpecFaultsFair == SpecFaults /\ WF_vars(Starts) /\ WF_vars(Completes)

----------------------------------------------------------------------------
(* call_yuanbao in the worker threads of asyncio.to_thread.  A step is one *)
(* read or write of the global HUNYUAN_CLIENT or one operation on          *)
(* HUNYUAN_CLIENT_LOCK; the interpreter runs one thread at a time and may  *)
(* switch between any two steps.                                           *)

(* if HUNYUAN_CLIENT is None:  (outside the lock)                          *)
ClientIsNone(client) == client = NULL

(* A second check that is not made: whoever gets the lock creates.         *)
NoSecondCheck(client) == TRUE

(* if HUNYUAN_CLIENT is None:  (inside "with HUNYUAN_CLIENT_LOCK")         *)
ClientIsNoneInLock(client) == client = NULL

At(th, pc) == threads[th].pc = pc

Goto(th, pc) == threads' = [threads EXCEPT ![th].pc = pc]

call_yuanbao_check(th) ==
    /\ At(th, "start")
    /\ Goto(th, IF ClientIsNone(HUNYUAN_CLIENT) THEN "lock" ELSE "request")
    /\ UNCHANGED <<HUNYUAN_CLIENT, HUNYUAN_CLIENT_LOCK>>

(* with HUNYUAN_CLIENT_LOCK: blocks while another thread holds the lock.   *)
call_yuanbao_acquire(th) ==
    /\ At(th, "lock")
    /\ HUNYUAN_CLIENT_LOCK = NULL
    /\ HUNYUAN_CLIENT_LOCK' = [holder |-> th]
    /\ Goto(th, "recheck")
    /\ UNCHANGED HUNYUAN_CLIENT

call_yuanbao_recheck(th) ==
    /\ At(th, "recheck")
    /\ Goto(th, IF ClientIsNoneInLock(HUNYUAN_CLIENT) THEN "create" ELSE "unlock")
    /\ UNCHANGED <<HUNYUAN_CLIENT, HUNYUAN_CLIENT_LOCK>>

(* HUNYUAN_CLIENT = hunyuan_client.HunyuanClient(cred, ...)                *)
call_yuanbao_create(th) ==
    /\ At(th, "create")
    /\ HUNYUAN_CLIENT' = [created_by |-> th]
    /\ Goto(th, "unlock")
    /\ UNCHANGED HUNYUAN_CLIENT_LOCK

(* Credential(...) or HunyuanClient(...) raises: the with block releases   *)
(* the lock and the except clause returns the failure text.                *)
call_yuanbao_create_raises(th) ==
    /\ At(th, "create")
    /\ HUNYUAN_CLIENT_LOCK' = NULL
    /\ Goto(th, "failed")
    /\ UNCHANGED HUNYUAN_CLIENT

(* the end of "with HUNYUAN_CLIENT_LOCK"                                   *)
call_yuanbao_release(th) ==
    /\ At(th, "unlock")
    /\ HUNYUAN_CLIENT_LOCK' = NULL
    /\ Goto(th, "request")
    /\ UNCHANGED HUNYUAN_CLIENT

(* resp = HUNYUAN_CLIENT.ChatCompletions(req): the global is read again.   *)
call_yuanbao_request(th) ==
    /\ At(th, "request")
    /\ threads' = [threads EXCEPT ![th] = [pc |-> "returned", used |-> HUNYUAN_CLIENT]]
    /\ UNCHANGED <<HUNYUAN_CLIENT, HUNYUAN_CLIENT_LOCK>>

Check == \E th \in DOMAIN threads : call_yuanbao_check(th) /\ UNCHANGED loop_vars

Acquire == \E th \in DOMAIN threads : call_yuanbao_acquire(th) /\ UNCHANGED loop_vars

Recheck == \E th \in DOMAIN threads : call_yuanbao_recheck(th) /\ UNCHANGED loop_vars

Create == \E th \in DOMAIN threads : call_yuanbao_create(th) /\ UNCHANGED loop_vars

CreateRaises == \E th \in DOMAIN threads : call_yuanbao_create_raises(th) /\ UNCHANGED loop_vars

ReleaseLock == \E th \in DOMAIN threads : call_yuanbao_release(th) /\ UNCHANGED loop_vars

Request == \E th \in DOMAIN threads : call_yuanbao_request(th) /\ UNCHANGED loop_vars

NextClient ==
    \/ Check
    \/ Acquire
    \/ Recheck
    \/ Create
    \/ CreateRaises
    \/ ReleaseLock
    \/ Request

SpecClient == Init /\ [][NextClient]_vars

----------------------------------------------------------------------------
(* State functions the properties use *)

Terminal == {"success", "error"}

Range(f) == {f[i] : i \in DOMAIN f}

(* The items of the tasks still to be created by process_items.            *)
ToCreate ==
    UNION {Range(e.audit_items) : e \in {x \in Range(ready) : x.kind = "process_items"}}

Created == {x \in Range(ready) : x.kind = "process_pdf_url"}

(* Every pipeline task that has not finished, by its identity.             *)
Unfinished == {Desc(e) : e \in ToCreate \cup Created \cup Range(waiters) \cup tasks}

(* The tasks whose terminal write happens in this step.                    *)
Finishing(t) == t \in tasks /\ \A u \in tasks' : u.tid # t.tid

(* This step is the handler of POST /audit accepting items.                *)
Accepting(items) == items # <<>> /\ nsub' = nsub + 1 /\ process_audit_request(items)

AllBodies == Bodies \cup CeilingBodies

StagesInOrder == <<"fetch", "extract", "build", "evaluate", "persist">>

----------------------------------------------------------------------------
(* C1: when the handler of an accepted POST /audit returns, every          *)
(* submitted item_id has a row in state processing with result,            *)
(* error_message and processing_time unset, and no pipeline of that        *)
(* submission has started, let alone written its terminal state: all its   *)
(* tasks are still to be created.                                          *)
C1_ProcessingWhenSubmissionReturns ==
    [][\A items \in AllBodies :
        Accepting(items) =>
            /\ http'.status_code = 200
            /\ \A k \in 1..Len(items) :
                /\ HasRow(store', items[k].id)
                /\ store'[items[k].id].status = "processing"
                /\ store'[items[k].id].result = NULL
                /\ store'[items[k].id].error_message = NULL
                /\ store'[items[k].id].processing_time = NULL
                /\ store'[items[k].id].writes = 0
            /\ \A k \in 1..Len(items) :
                \E e \in ToCreate' :
                    e.sub = nsub' /\ e.tid = ntask + k /\ e.id = items[k].id
            /\ \A e \in Unfinished' : e.sub = nsub' => e \in {Desc(x) : x \in ToCreate'}
    ]_vars

(* A second submission carrying item_id 1 has just returned while a        *)
(* pipeline of the first submission has not finished.                      *)
C1_Witness ==
    /\ http.op = "POST"
    /\ http.status_code = 200
    /\ nsub = 2
    /\ HasRow(store, 1)
    /\ store[1].status = "processing"
    /\ store[1].create_time = 2
    /\ \E e \in Unfinished : e.sub = 1

(* C2: every JobRecord receives exactly one terminal write, and once the   *)
(* pipelines of its item_id have finished its status is not processing.    *)
C2_ExactlyOneTerminalWrite ==
    \A id \in DOMAIN store :
        /\ store[id].writes <= 1
        /\ (\A e \in Unfinished : e.id # id) =>
                store[id].status \in Terminal /\ store[id].writes = 1

(* C3: at most MAX_CONCURRENT pipelines are inside the guarded section,    *)
(* whatever the number of batches and items.                               *)
C3_AtMostMaxConcurrent ==
    /\ Cardinality(tasks) <= MAX_CONCURRENT
    /\ Cardinality({t.tid : t \in tasks}) = Cardinality(tasks)

(* The limiter is full with pipelines of two batches and one more waits.   *)
C3_Witness ==
    /\ Cardinality(tasks) = MAX_CONCURRENT
    /\ waiters # <<>>
    /\ \E t, u \in tasks : t.sub # u.sub

(* C4, as claimed: once a JobRecord is success or error, no operation      *)
(* changes its status.                                                     *)
C4_TerminalStatusNeverChanges ==
    [][\A id \in DOMAIN store :
        store[id].status \in Terminal => store'[id].status = store[id].status
    ]_vars

(* C4, amended: a terminal JobRecord changes only when a POST /audit       *)
(* carrying its item_id replaces it with a fresh processing record, or     *)
(* when a pipeline still running for the same item_id performs its own     *)
(* terminal write; a GET, a rejected POST and the pipelines of other       *)
(* item_ids leave it as it is.                                             *)
C4_TerminalChangesOnlyForSameId ==
    [][\A id \in DOMAIN store :
        (store[id].status \in Terminal /\ store'[id] # store[id]) =>
            \/ /\ \E items \in Bodies :
                    Accepting(items) /\ \E k \in 1..Len(items) : items[k].id = id
               /\ store'[id].status = "processing"
               /\ store'[id].writes = 0
            \/ \E t \in tasks :
                    /\ Finishing(t)
                    /\ t.id = id
                    /\ store'[id].by = Desc(t)
                    /\ store'[id].status \in Terminal
    ]_vars

(* A record that was resubmitted is terminal again, records of other       *)
(* item_ids have been written since, and a GET has just read it.           *)
C4_Witness ==
    /\ http.op = "GET"
    /\ http.item_id = 1
    /\ http.status \in Terminal
    /\ store[1].create_time = 2
    /\ \E id \in DOMAIN store : id # 1 /\ store[id].status \in Terminal

(* C5: once the pipelines of an item_id have finished, its JobRecord       *)
(* reflects only the latest submission: the terminal state was written by  *)
(* the pipeline of the submission that created the record, for the         *)
(* document of the record's pdf_url.                                       *)
C5_ReflectsOnlyLaterSubmission ==
    \A id \in DOMAIN store :
        (\A e \in Unfinished : e.id # id) =>
            /\ store[id].by.sub = store[id].create_time
            /\ store[id].by.url = store[id].pdf_url
            /\ (store[id].status = "success"
                    /\ json_loads(store[id].result).kind = "content") =>
                        json_loads(store[id].result).about = store[id].pdf_url

(* C6: an item whose reasoning-engine call failed never ends with status   *)
(* success: a success record holds an answer of the engine, and the        *)
(* failure text of call_yuanbao is found in error_message only.            *)
C6_EngineFailureEndsInError ==
    \A id \in DOMAIN store :
        store[id].status = "success" => json_loads(store[id].result).kind = "content"

(* C7: a POST /audit with more than 50 items is answered 400 and creates   *)
(* or replaces no JobRecord and schedules no task.                         *)
C7_TooManyItemsRejected ==
    [][(http'.op = "POST" /\ http'.n > DocumentedMaxItems) =>
            /\ http'.status_code = 400
            /\ store' = store
            /\ ready' = ready
    ]_vars

(* C8: a document larger than 50 MiB never reaches the reasoning engine    *)
(* and its JobRecord ends in error with a message about the size.          *)
C8_OversizedNeverEvaluated ==
    /\ \A t \in tasks : t.pc = "evaluate" => Size(t.url) <= DocumentedMaxSize
    /\ \A id \in DOMAIN store :
            (store[id].writes > 0 /\ Size(store[id].by.url) > DocumentedMaxSize) =>
                /\ store[id].status = "error"
                /\ store[id].error_message.why = "too_large"

(* What the document behind a URL makes of its own pipeline, whatever      *)
(* happens to the other items.                                             *)
FetchFails(url) ==
    ~Reachable(url) \/ ContentType(url) # "application/pdf" \/ Size(url) > max_size

ExpectedStatus(url) == IF FetchFails(url) \/ ~Readable(url) THEN "error" ELSE "success"

(* C9: failures are isolated per item.  The terminal write of a pipeline   *)
(* changes the JobRecord of its own item_id only; its status is decided    *)
(* by the item's own document, whatever happened to its siblings and to    *)
(* other batches; and the end of a pipeline, failed or not, cancels or     *)
(* loses no other task.                                                    *)
C9_FailuresIsolatedPerItem ==
    [][\A t \in tasks :
        Finishing(t) =>
            /\ \A id \in DOMAIN store : id # t.id => store'[id] = store[id]
            /\ HasRow(store', t.id)
            /\ store'[t.id].by = Desc(t)
            /\ store'[t.id].status = ExpectedStatus(t.url)
            /\ store'[t.id].status = "success" =>
                    json_loads(store'[t.id].result).about \in {t.url, ""}
            /\ \A u \in tasks : u.tid # t.tid => u \in tasks'
            /\ Unfinished' = Unfinished \ {Desc(t)}
    ]_vars

(* Of one batch an item has succeeded and a sibling has failed, while a    *)
(* pipeline of another batch is still running.                             *)
C9_Witness ==
    /\ HasRow(store, 2) /\ HasRow(store, 3)
    /\ store[2].status = "success"
    /\ store[3].status = "error"
    /\ store[2].by.sub = store[3].by.sub
    /\ \E t \in tasks : t.sub # store[2].by.sub /\ t.id # 2 /\ t.id # 3

IsPrefix(s, t) == Len(s) <= Len(t) /\ SubSeq(t, 1, Len(s)) = s

(* C10: the stages of a pipeline run in the order fetch, extract, build,   *)
(* evaluate, persist, each after the success of the one before; when the   *)
(* fetch or the extraction fails the reasoning engine is not called and    *)
(* the terminal write is an error with no result.                          *)
C10_StagesInOrder ==
    /\ \A t \in tasks :
            /\ IsPrefix(t.stages, StagesInOrder)
            /\ t.pc = "download" => t.stages = <<>>
            /\ t.pc = "evaluate" =>
                    /\ t.stages = <<"fetch", "extract", "build">>
                    /\ ~FetchFails(t.url)
                    /\ Readable(t.url)
    /\ \A id \in DOMAIN store :
            store[id].writes > 0 =>
                LET row == store[id]
                    url == row.by.url
                IN  IF FetchFails(url)
                    THEN /\ row.stages = <<"fetch", "persist">>
                         /\ row.status = "error"
                         /\ row.result = NULL
                         /\ row.error_message.stage = "download"
                    ELSE IF ~Readable(url)
                    THEN /\ row.stages = <<"fetch", "extract", "persist">>
                         /\ row.status = "error"
                         /\ row.result = NULL
                         /\ row.error_message.stage = "extract"
                    ELSE /\ row.stages = StagesInOrder
                         /\ row.status = "success"
                         /\ row.result # NULL

(* One pipeline stopped at a failed extraction, one at a failed fetch,     *)
(* and a third is at the reasoning engine.                                 *)
C10_Witness ==
    /\ \E id \in DOMAIN store : store[id].stages = <<"fetch", "extract", "persist">>
    /\ \E id \in DOMAIN store : store[id].stages = <<"fetch", "persist">>
    /\ \E t \in tasks : t.pc = "evaluate"

----------------------------------------------------------------------------
(* C11: a batch submitted with a callback target is acknowledged at once   *)
(* with status processing and its items are registered for processing      *)
(* (after which one POST, and only one, goes to the callback target once   *)
(* every item is terminal).                                                *)
C11_CallbackBatchAcknowledged ==
    [][\A payload \in Payloads :
        (payload.callback_url # NULL /\ post_audit(payload)) =>
            /\ http'.status_code = 200
            /\ \A k \in 1..Len(payload.root) :
                    /\ HasRow(store', payload.root[k].id)
                    /\ store'[payload.root[k].id].status = "processing"
            /\ ready' # ready
    ]_vars

(* C13: GET /audit/{item_id} changes no JobRecord and nothing else of the  *)
(* program's state, so a GET that follows a GET for the same item_id with  *)
(* no write in between returns the same contents.                          *)
C13_GetIsReadOnly ==
    [][\A item_id \in GetIds :
        (http'.op = "GET" /\ http'.item_id = item_id) =>
            /\ UNCHANGED <<store, ready, waiters, sem_value, tasks, nsub, ntask>>
            /\ (http.op = "GET" /\ http.item_id = item_id) => http' = http
    ]_vars

(* A GET has just returned the terminal record of an item_id that was      *)
(* submitted twice, while other pipelines are still running.               *)
C13_Witness ==
    /\ http.op = "GET"
    /\ HasRow(store, http.item_id)
    /\ http.status \in Terminal
    /\ http.create_time = 2
    /\ Unfinished # {}

(* C14: GET /audit/{item_id} for an item_id without a JobRecord returns    *)
(* exactly {item_id, status: failure}, creates no record, and the status   *)
(* failure is never returned for an item_id that has a record.             *)
C14_UnknownIdGivesFailureShape ==
    /\ [](http.op = "GET" =>
            IF HasRow(store, http.item_id)
            THEN /\ http.status # "failure"
                 /\ http.status = store[http.item_id].status
            ELSE http = [op |-> "GET", item_id |-> http.item_id, status |-> "failure"])
    /\ [][(http'.op = "GET" /\ ~HasRow(store, http'.item_id)) =>
            /\ store' = store
            /\ ~HasRow(store', http'.item_id)
       ]_vars

(* An unknown item_id has just been read while records of other item_ids   *)
(* exist, one of them terminal.                                            *)
C14_Witness ==
    /\ http.op = "GET"
    /\ http.status = "failure"
    /\ ~HasRow(store, http.item_id)
    /\ \E id \in DOMAIN store : store[id].status \in Terminal

(* What makes a request body fail validation: it is not a list, the list   *)
(* is empty, or an item's url is not a URL.                                *)
FailsValidation(payload) ==
    \/ payload.shape # "list"
    \/ payload.root = <<>>
    \/ \E k \in 1..Len(payload.root) : ~HttpUrl(payload.root[k].url)

(* C15: a POST /audit that fails input validation (an empty list, a body   *)
(* that is not a list, a malformed URL) is answered with a 400-class       *)
(* status and leaves the store and the scheduled tasks as they were; and   *)
(* no POST answered with a 400-class status changes anything.              *)
C15_RejectedBeforeAnyRecord ==
    [][/\ \A payload \in Payloads :
            (FailsValidation(payload) /\ post_audit(payload)) =>
                /\ http'.status_code \in 400..499
                /\ UNCHANGED <<store, ready, waiters, sem_value, tasks, nsub, ntask>>
       /\ (http'.op = "POST" /\ http'.status_code \in 400..499) =>
                UNCHANGED <<store, ready, waiters, sem_value, tasks, nsub, ntask>>
    ]_vars

(* A body with a malformed URL has just been rejected while the records    *)
(* and pipelines of an earlier submission exist.                           *)
C15_Witness ==
    /\ http.op = "POST"
    /\ http.status_code = 422
    /\ http.n = 2
    /\ store # <<>>
    /\ Unfinished # {}

(* C17: in every JobRecord result is present iff status is success,        *)
(* error_message is present iff status is error, and processing_time is    *)
(* present iff status is terminal.                                         *)
C17_FieldsMatchStatus ==
    \A id \in DOMAIN store :
        /\ store[id].status \in {"processing"} \cup Terminal
        /\ (store[id].result # NULL) <=> (store[id].status = "success")
        /\ (store[id].error_message # NULL) <=> (store[id].status = "error")
        /\ (store[id].processing_time # NULL) <=> (store[id].status \in Terminal)

(* A record has received a success and then an error from two pipelines    *)
(* of its item_id, and another record is processing again after a          *)
(* resubmission.                                                           *)
C17_Witness ==
    /\ \E id \in DOMAIN store :
            /\ store[id].writes = 2
            /\ store[id].status = "error"
    /\ \E id \in DOMAIN store :
            /\ store[id].status = "processing"
            /\ store[id].create_time = 2

(* The process_items tasks this step appended to the event loop's queue.   *)
NewChunks == SubSeq(ready', Len(ready) + 1, Len(ready'))

(* How many tasks exist, created or still to be created.                   *)
PendingEntries ==
      Cardinality({pj \in (DOMAIN ready) \X (1..MAX_ITEMS_PER_BATCH) :
                        /\ ready[pj[1]].kind = "process_items"
                        /\ pj[2] <= Len(ready[pj[1]].audit_items)})
    + Cardinality({p \in DOMAIN ready : ready[p].kind = "process_pdf_url"})
    + Len(waiters)
    + Cardinality(tasks)

(* The accepted items, by their numbers, that have such a task.            *)
PendingTids == {e.tid : e \in Unfinished}

(* C18: the chunks of an accepted list partition it: every item is in      *)
(* exactly one chunk, a chunk holds 1 to 5 consecutive items and nothing   *)
(* else; every accepted item has one task from then on, never two at a     *)
(* time and none again after it finished; a chunk at the head of the       *)
(* queue starts whatever other chunks are doing; and the status an item    *)
(* ends with is the one its own document gives, whatever chunk it was in.  *)
C18_ChunksPartitionTheItems ==
    /\ [][\A items \in Bodies :
            Accepting(items) =>
                LET chunks == NewChunks
                    tagged == Tagged(items, ntask, nsub')
                    places(i) ==
                        {kj \in (DOMAIN chunks) \X (1..MAX_ITEMS_PER_BATCH) :
                            /\ kj[2] <= Len(chunks[kj[1]].audit_items)
                            /\ chunks[kj[1]].audit_items[kj[2]] = tagged[i]}
                IN  /\ \A k \in DOMAIN chunks :
                        /\ chunks[k].kind = "process_items"
                        /\ Len(chunks[k].audit_items) \in 1..MAX_ITEMS_PER_BATCH
                        /\ \A j \in 1..Len(chunks[k].audit_items) :
                                chunks[k].audit_items[j] \in Range(tagged)
                        /\ \A j \in 1..(Len(chunks[k].audit_items) - 1) :
                                chunks[k].audit_items[j + 1].tid =
                                    chunks[k].audit_items[j].tid + 1
                    /\ \A i \in 1..Len(items) : Cardinality(places(i)) = 1
                    /\ PendingTids' = PendingTids \cup ((ntask + 1)..(ntask + Len(items)))
       ]_vars
    /\ [][PendingTids' \subseteq PendingTids \cup ((ntask + 1)..ntask')]_vars
    /\ [](PendingEntries = Cardinality(PendingTids))
    /\ []((ready # <<>> /\ Head(ready).kind = "process_items") => ENABLED process_items)
    /\ [](\A id \in DOMAIN store :
            store[id].writes > 0 => store[id].status = ExpectedStatus(store[id].by.url))

(* Of a list of six items the pipeline of the sixth, alone in the second   *)
(* chunk, runs beside pipelines of the first chunk, one item of which has  *)
(* ended in error already.                                                 *)
C18_Witness ==
    /\ \E t, u \in tasks : t.sub = u.sub /\ t.id = 6 /\ u.id \in 1..5
    /\ \E id \in DOMAIN store : store[id].status = "error"

(* What the terminal write of a pipeline for the document behind url puts  *)
(* into the record.                                                        *)
WrittenFor(row, url) ==
    /\ row.processing_time # NULL
    /\ IF FetchFails(url)
       THEN /\ row.status = "error"
            /\ row.result = NULL
            /\ row.error_message = download_pdf(url).error
       ELSE IF ~Readable(url)
       THEN /\ row.status = "error"
            /\ row.result = NULL
            /\ row.error_message.stage = "extract"
       ELSE /\ row.status = "success"
            /\ row.error_message = NULL
            /\ json_loads(row.result).about \in {url, ""}

(* C16: when several pipelines run for one item_id, each performs its      *)
(* terminal write whatever the record holds by then (nothing detects the   *)
(* race): the write counts, and status, result, error_message and          *)
(* processing_time become those of the writing pipeline, pdf_url and       *)
(* create_time stay; so after all of them have finished the record holds   *)
(* what the pipeline that wrote last has written.                          *)
C16_LastTerminalWriteWins ==
    /\ [][\A t \in tasks :
            Finishing(t) =>
                /\ store'[t.id].writes = store[t.id].writes + 1
                /\ store'[t.id].by = Desc(t)
                /\ WrittenFor(store'[t.id], t.url)
                /\ store'[t.id].pdf_url = store[t.id].pdf_url
                /\ store'[t.id].create_time = store[t.id].create_time
       ]_vars
    /\ [](\A id \in DOMAIN store :
            store[id].writes > 0 => WrittenFor(store[id], store[id].by.url))

(* Both pipelines of an item_id named twice in one list have finished, and *)
(* the record, which holds the second address, has the success of the      *)
(* pipeline of the first one, written over the error of the other.         *)
C16_Witness ==
    /\ HasRow(store, 1)
    /\ \A e \in Unfinished : e.id # 1
    /\ store[1].writes = 2
    /\ store[1].pdf_url = "corrupt"
    /\ store[1].by.url = "ok_a"
    /\ store[1].status = "success"

(* C19: every pipeline that took a limiter slot gives it back exactly      *)
(* once, however it ends (a failing success UPDATE included): the free     *)
(* slots are between 0 and MAX_CONCURRENT, they are MAX_CONCURRENT minus   *)
(* the pipelines inside the guarded section, all of them are free when no  *)
(* pipeline is inside, and the end of a pipeline frees one slot or hands   *)
(* it to the first waiter.                                                 *)
C19_SlotsAccountedFor ==
    /\ [](/\ sem_value \in 0..MAX_CONCURRENT
          /\ sem_value = MAX_CONCURRENT - Cardinality(tasks)
          /\ tasks = {} => sem_value = MAX_CONCURRENT)
    /\ [][\A t \in tasks :
            Finishing(t) =>
                IF waiters = <<>>
                THEN sem_value' = sem_value + 1 /\ tasks' = tasks \ {t}
                ELSE /\ sem_value' = sem_value
                     /\ waiters' = Tail(waiters)
                     /\ tasks' = (tasks \ {t}) \cup {Entered(Head(waiters))}
       ]_vars

(* A pipeline whose success UPDATE failed has left the guarded section,    *)
(* which is full again, and one more pipeline waits for a slot.            *)
C19_Witness ==
    /\ \E id \in DOMAIN store : store[id].error_message = StoreError
    /\ Cardinality(tasks) = MAX_CONCURRENT
    /\ sem_value = 0
    /\ waiters # <<>>

(* The pipeline of the submission a record was created by ended without a  *)
(* terminal write.                                                         *)
Unwritten(id) == \E e \in unwritten : e.id = id /\ e.sub = store[id].create_time

C12_ClientInitialisedOnce ==
    /\ [][HUNYUAN_CLIENT # NULL => HUNYUAN_CLIENT' = HUNYUAN_CLIENT]_vars
    /\ [](\A th \in DOMAIN threads :
            /\ At(th, "request") \/ At(th, "unlock") \/ At(th, "returned") =>
                    HUNYUAN_CLIENT # NULL
            /\ At(th, "returned") =>
                    /\ threads[th].used # NULL
                    /\ threads[th].used = HUNYUAN_CLIENT
            /\ ~At(th, "returned") => threads[th].used = NULL
            /\ At(th, "recheck") \/ At(th, "create") \/ At(th, "unlock") =>
                    HUNYUAN_CLIENT_LOCK = [holder |-> th])
    /\ []((\A th \in DOMAIN threads : At(th, "returned") \/ At(th, "failed")) =>
            (HUNYUAN_CLIENT = NULL <=> \A th \in DOMAIN threads : At(th, "failed")))

(* A thread that found the global unset waits for the lock, which is      *)
(* free, after another thread has set the handle and issued its request    *)
(* through it.                                                             *)
C12_Witness ==
    \E a, b \in DOMAIN threads :
        /\ At(a, "lock")
        /\ At(b, "returned")
        /\ HUNYUAN_CLIENT = [created_by |-> b]
        /\ threads[b].used = HUNYUAN_CLIENT
        /\ HUNYUAN_CLIENT_LOCK = NULL

====
